---- MODULE Spec2Model ----
(***************************************************************************)
(* Model of rust/agents/scraper/src/db/message.rs: the scraper's message   *)
(* and delivery tables, the watermark-counted batch upserts                *)
(* (store_dispatched_messages, store_deliveries) and the read queries      *)
(* (last_message_nonce, retrieve_message_by_nonce,                         *)
(* retrieve_dispatched_tx_id).                                             *)
(*                                                                         *)
(* Every database statement is one atomic step.  A store call is three     *)
(* statements (baseline read, batch upsert, recount) with an await between *)
(* them, so the calls of different callers interleave at those points.     *)
(* Spec has the calls over a store whose statements run; FailSpec adds the *)
(* failure of each statement and the empty batch.                          *)
(***************************************************************************)
EXTENDS Integers, Sequences, FiniteSets, TLC

(***************************************************************************)
(* Bounds.                                                                 *)
(***************************************************************************)
\* Width of the u32 / i32 types, scaled down (the code has 32).
IntBits == 3
\* Number of concurrent callers.
NumProcs == 2
\* Total number of store calls started in a behaviour.
MaxCalls == 2
\* An H256 is PadBytes + ShortBytes bytes wide (the code has 12 + 20).
PadBytes == 1
ShortBytes == 2

RECURSIVE Pow2(_)
Pow2(n) == IF n = 0 THEN 1 ELSE 2 * Pow2(n - 1)

U32Mod == Pow2(IntBits)
I32Half == Pow2(IntBits - 1)
AddrBytes == PadBytes + ShortBytes

Procs == 1..NumProcs

(***************************************************************************)
(* Integer casts: `x as i32` on a u32 and `x as u32` on an i32.            *)
(***************************************************************************)
AsI32(u) == IF u >= I32Half THEN u - U32Mod ELSE u
AsU32(i) == IF i < 0 THEN i + U32Mod ELSE i

(***************************************************************************)
(* Option values.                                                          *)
(***************************************************************************)
None == <<"None">>
Some(x) == <<"Some", x>>
IsSome(o) == o[1] = "Some"
Unwrap(o) == o[2]

Ok(x) == <<"Ok", x>>
Err(e) == <<"Err", e>>
IsOk(r) == r[1] = "Ok"
\* A panic: the call does not return.
Panic(msg) == <<"Panic", msg>>
\* The DbErr of a statement the store did not execute (connection or execution
\* failure); `?` hands it to the caller.
StoreError == Err("DbErr")

(***************************************************************************)
(* crate::conversions.  An address is an H256; one whose leading PadBytes  *)
(* are zero is stored as its trailing ShortBytes bytes.                    *)
(***************************************************************************)
is_h160(a) == \A i \in 1..PadBytes : a[i] = 0
address_to_bytes(a) == IF is_h160(a) THEN SubSeq(a, PadBytes + 1, AddrBytes) ELSE a
h256_to_bytes(h) == h
bytes_to_address(b) ==
    IF Len(b) = AddrBytes THEN Ok(b)
    ELSE IF Len(b) = ShortBytes THEN Ok([i \in 1..AddrBytes |-> IF i <= PadBytes THEN 0 ELSE b[i - PadBytes]])
    ELSE Err("Invalid address length")

ShortAddr(x) == [i \in 1..AddrBytes |-> IF i <= PadBytes THEN 0 ELSE x]
FullAddr(x) == [i \in 1..AddrBytes |-> x]

(***************************************************************************)
(* HyperlaneMessage and its id (a hash of all fields; modelled by the      *)
(* tuple of the fields, which is injective as the hash is assumed to be).  *)
(***************************************************************************)
HyperlaneMessage(v, o, d, n, s, r, b) ==
    [version |-> v, origin |-> o, destination |-> d, nonce |-> n,
     sender |-> s, recipient |-> r, body |-> b]
MessageId(m) ==
    <<m.version, m.nonce, m.origin, m.sender, m.destination, m.recipient, m.body>>

\* The protocol version written by retrieve_message_by_nonce.
Version == 3

(***************************************************************************)
(* Inputs.                                                                 *)
(***************************************************************************)
AddrA == ShortAddr(1)
AddrB == FullAddr(2)
BigNonce == I32Half

StorableMessage(m, t) == [msg |-> m, txn_id |-> t]
\* S1 and S2 share the key (origin 1, nonce 0) and differ in every other field;
\* S3 has a nonce that does not fit a signed integer; S4 has another origin
\* and another version.
S1 == StorableMessage(HyperlaneMessage(Version, 1, 2, 0, AddrA, AddrB, <<>>), 100)
S2 == StorableMessage(HyperlaneMessage(Version, 1, 1, 0, AddrB, AddrA, <<7>>), 101)
S3 == StorableMessage(HyperlaneMessage(Version, 1, 2, BigNonce, AddrA, AddrB, <<>>), 101)
S4 == StorableMessage(HyperlaneMessage(0, 2, 1, 1, AddrA, AddrA, <<7>>), 101)
Storables == {S1, S2, S3, S4}
\* The (domain, origin_mailbox, messages) arguments of store_dispatched_messages:
\* one message; two keys; one key twice in a batch; a message whose origin is
\* not the domain argument (under either domain); a second domain and mailbox.
DispatchArgs ==
    {<<1, AddrA, <<S2>>>>, <<1, AddrA, <<S1, S3>>>>, <<1, AddrA, <<S2, S1>>>>,
     <<1, AddrA, <<S4>>>>, <<2, AddrB, <<S2>>>>, <<2, AddrB, <<S4>>>>}

MsgIdX == FullAddr(8)
MsgIdY == FullAddr(9)
StorableDelivery(i, t) == [message_id |-> i, txn_id |-> t]
DX1 == StorableDelivery(MsgIdX, 200)
DX2 == StorableDelivery(MsgIdX, 201)
DY1 == StorableDelivery(MsgIdY, 200)
\* The (domain, destination_mailbox, deliveries) arguments of store_deliveries:
\* a delivery; the same msg_id with another transaction; two msg_ids; one
\* msg_id twice in a batch; a msg_id delivered again under another domain and
\* mailbox.
DeliveryArgs ==
    {<<1, AddrA, <<DX1>>>>, <<1, AddrA, <<DX2>>>>, <<1, AddrA, <<DY1, DX1>>>>,
     <<1, AddrA, <<DX1, DX2>>>>, <<2, AddrB, <<DX2>>>>}
Domains == {a[1] : a \in DispatchArgs \cup DeliveryArgs}
Mailboxes == {a[2] : a \in DispatchArgs \cup DeliveryArgs}

VARIABLES
    messages,     \* the message table: a set of rows
    delivered,    \* the delivered_message table: a set of rows
    msgSeq,       \* last id handed out by the message table's id sequence (ids
                  \* grow; ids a store skips on a conflict are not modelled)
    delSeq,       \* last id handed out by the delivered_message id sequence
    clock,        \* date_time::now(): a logical clock, one tick per store call
    pc,           \* per caller: where its store call stands
    call,         \* per caller: the arguments and locals of its store call, with
                  \* what its upsert found (before) and added (inserted), the
                  \* positions of its statements in the order of writes and
                  \* the statements it attempted (steps)
    writes,       \* number of batch upserts executed so far
    started,      \* number of store calls started so far
    calls         \* the completed store calls with their results

vars == <<messages, delivered, msgSeq, delSeq, clock, pc, call, writes, started, calls>>

NoCall == [op |-> "none"]

(***************************************************************************)
(* The message table.                                                      *)
(***************************************************************************)
MsgConflictColumns == {"origin_mailbox", "origin", "nonce"}
\* Faulty variant of MsgUpdateColumns: origin_tx_id is not refreshed on conflict.
MsgUpdateColumns_NoTxId ==
    {"time_created", "destination", "sender", "recipient", "msg_body"}
MsgUpdateColumns ==
    {"time_created", "destination", "sender", "recipient", "msg_body", "origin_tx_id"}

\* message::ActiveModel built from one StorableMessage (id is NotSet).
MessageModel(origin_mailbox, storable, now) ==
    [time_created |-> now,
     msg_id |-> h256_to_bytes(MessageId(storable.msg)),
     origin |-> AsI32(storable.msg.origin),
     destination |-> AsI32(storable.msg.destination),
     nonce |-> AsI32(storable.msg.nonce),
     sender |-> address_to_bytes(storable.msg.sender),
     recipient |-> address_to_bytes(storable.msg.recipient),
     msg_body |-> IF storable.msg.body = <<>> THEN None ELSE Some(storable.msg.body),
     origin_mailbox |-> origin_mailbox,
     origin_tx_id |-> storable.txn_id]

MessageModels(origin_mailbox, batch, now) ==
    [i \in 1..Len(batch) |-> MessageModel(origin_mailbox, batch[i], now)]

KeyOf(cols, row) == [c \in cols |-> row[c]]

\* Faulty variant of UpsertOne: ON CONFLICT DO NOTHING.
UpsertOne_DoNothing(t, cols, upd, model) ==
    IF \E r \in t.rows : KeyOf(cols, r) = KeyOf(cols, model)
    THEN t
    ELSE [rows |-> t.rows \cup
                   {[c \in DOMAIN model \cup {"id"} |->
                        IF c = "id" THEN t.seq + 1 ELSE model[c]]},
          seq |-> t.seq + 1]

\* INSERT one row ... ON CONFLICT (cols) DO UPDATE SET upd = excluded.upd
UpsertOne(t, cols, upd, model) ==
    IF \E r \in t.rows : KeyOf(cols, r) = KeyOf(cols, model)
    THEN [rows |-> {IF KeyOf(cols, r) = KeyOf(cols, model)
                    THEN [c \in DOMAIN r |-> IF c \in upd THEN model[c] ELSE r[c]]
                    ELSE r : r \in t.rows},
          seq |-> t.seq]
    ELSE [rows |-> t.rows \cup
                   {[c \in DOMAIN model \cup {"id"} |->
                        IF c = "id" THEN t.seq + 1 ELSE model[c]]},
          seq |-> t.seq + 1]

\* Faulty variant of UpsertMany: the statement stops after its first row.
UpsertMany_FirstOnly(t, cols, upd, models) ==
    IF models = <<>> THEN t ELSE UpsertOne(t, cols, upd, Head(models))

RECURSIVE UpsertMany(_, _, _, _)
UpsertMany(t, cols, upd, models) ==
    IF models = <<>> THEN t
    ELSE UpsertMany(UpsertOne(t, cols, upd, Head(models)), cols, upd, Tail(models))

\* Two models of one statement hit the same conflict key.
HasDuplicateKeys(cols, models) ==
    \E i, j \in 1..Len(models) : i < j /\ KeyOf(cols, models[i]) = KeyOf(cols, models[j])

\* Faulty variant of UpsertOutcomes: an insert of no rows succeeds and does nothing.
UpsertOutcomes_EmptyIsNoOp(t, cols, upd, models) ==
    {Ok(UpsertMany(t, cols, upd, models))}
    \cup (IF HasDuplicateKeys(cols, models) THEN {Err("cannot affect row a second time")} ELSE {})

\* The statement as the store executes it: all of it or, on an error, none.
\* A statement whose rows hit one conflict key twice is rejected by some
\* stores (PostgreSQL) and applied in order by others (SQLite, MySQL).
\* Insert::many of no models builds a statement with no columns and no
\* VALUES, which the store rejects.
UpsertOutcomes(t, cols, upd, models) ==
    IF models = <<>> THEN {Err("syntax error")}
    ELSE {Ok(UpsertMany(t, cols, upd, models))}
         \cup (IF HasDuplicateKeys(cols, models)
               THEN {Err("cannot affect row a second time")} ELSE {})

(***************************************************************************)
(* Queries on the message table.  A filter `Column.eq(v)` with v a u32     *)
(* compares the signed column with the number v.                           *)
(***************************************************************************)
SetMax(S) == CHOOSE x \in S : \A y \in S : y <= x

DispatchedRows(domain, origin_mailbox) ==
    {r \in messages : r.origin = domain /\ r.origin_mailbox = origin_mailbox}

\* Faulty variant of latest_dispatched_id: the smallest id of the filter.
latest_dispatched_id_Min(domain, origin_mailbox) ==
    LET ids == {r.id : r \in DispatchedRows(domain, origin_mailbox)}
    IN  IF ids = {} THEN 0 ELSE CHOOSE x \in ids : \A y \in ids : x <= y

latest_dispatched_id(domain, origin_mailbox) ==
    LET ids == {r.id : r \in DispatchedRows(domain, origin_mailbox)}
    IN  IF ids = {} THEN 0 ELSE SetMax(ids)

\* Faulty variant of dispatch_count_since_id: id >= prev_id.
dispatch_count_since_id_Inclusive(domain, origin_mailbox, prev_id) ==
    Cardinality({r \in DispatchedRows(domain, origin_mailbox) : r.id >= prev_id})

\* Faulty variant of dispatch_count_since_id: the first id after prev_id is skipped.
dispatch_count_since_id_Gap(domain, origin_mailbox, prev_id) ==
    Cardinality({r \in DispatchedRows(domain, origin_mailbox) : r.id > prev_id + 1})

dispatch_count_since_id(domain, origin_mailbox, prev_id) ==
    Cardinality({r \in DispatchedRows(domain, origin_mailbox) : r.id > prev_id})

\* SELECT MAX(nonce) without GROUP BY yields one row also over an empty set,
\* holding NULL; it is decoded as a plain i32 (not an Option).
last_message_nonce(origin_domain, origin_mailbox) ==
    LET nonces == {r.nonce : r \in DispatchedRows(origin_domain, address_to_bytes(origin_mailbox))}
    IN  IF nonces = {} THEN Err("null value while decoding")
        ELSE Ok(Some(AsU32(SetMax(nonces))))

NonceRows(origin_domain, origin_mailbox, nonce) ==
    {r \in DispatchedRows(origin_domain, address_to_bytes(origin_mailbox)) : r.nonce = nonce}

\* `.one()` returns any one of the matching rows.
RowToMessage(r) ==
    LET s == bytes_to_address(r.sender)
        rc == bytes_to_address(r.recipient)
    IN  IF ~IsOk(s) THEN s
        ELSE IF ~IsOk(rc) THEN rc
        ELSE Ok(Some(HyperlaneMessage(Version, AsU32(r.origin), AsU32(r.destination),
                                      AsU32(r.nonce), s[2], rc[2],
                                      IF IsSome(r.msg_body) THEN Unwrap(r.msg_body) ELSE <<>>)))

retrieve_message_by_nonce(origin_domain, origin_mailbox, nonce) ==
    LET rows == NonceRows(origin_domain, origin_mailbox, nonce)
    IN  IF rows = {} THEN {Ok(None)} ELSE {RowToMessage(r) : r \in rows}

\* Faulty variant of retrieve_dispatched_tx_id: the nonce filter is missing.
retrieve_dispatched_tx_id_NoNonceFilter(origin_domain, origin_mailbox, nonce) ==
    LET rows == DispatchedRows(origin_domain, address_to_bytes(origin_mailbox))
        groups == {r.origin : r \in rows}
    IN  IF groups = {} THEN {Ok(None)}
        ELSE {Ok(Some(SetMax({r.origin_tx_id : r \in {x \in rows : x.origin = g}}))) : g \in groups}

\* SELECT MAX(origin_tx_id) ... GROUP BY origin: no row over an empty set.
retrieve_dispatched_tx_id(origin_domain, origin_mailbox, nonce) ==
    LET rows == NonceRows(origin_domain, origin_mailbox, nonce)
        groups == {r.origin : r \in rows}
    IN  IF groups = {} THEN {Ok(None)}
        ELSE {Ok(Some(SetMax({r.origin_tx_id : r \in {x \in rows : x.origin = g}}))) : g \in groups}

(***************************************************************************)
(* The delivered_message table.                                            *)
(***************************************************************************)
DelConflictColumns == {"msg_id"}
\* Faulty variant of DelUpdateColumns: domain and mailbox are refreshed too.
DelUpdateColumns_WithFilter ==
    {"time_created", "destination_tx_id", "domain", "destination_mailbox"}
DelUpdateColumns == {"time_created", "destination_tx_id"}

DeliveryModel(domain, destination_mailbox, delivery, now) ==
    [time_created |-> now,
     msg_id |-> h256_to_bytes(delivery.message_id),
     domain |-> AsI32(domain),
     destination_mailbox |-> destination_mailbox,
     destination_tx_id |-> delivery.txn_id]

DeliveryModels(domain, destination_mailbox, batch, now) ==
    [i \in 1..Len(batch) |-> DeliveryModel(domain, destination_mailbox, batch[i], now)]

DeliveredRows(domain, destination_mailbox) ==
    {r \in delivered : r.domain = domain /\ r.destination_mailbox = destination_mailbox}

latest_deliveries_id(domain, destination_mailbox) ==
    LET ids == {r.id : r \in DeliveredRows(domain, destination_mailbox)}
    IN  IF ids = {} THEN 0 ELSE SetMax(ids)

\* Faulty variant of deliveries_count_since_id: id >= prev_id.
deliveries_count_since_id_Inclusive(domain, destination_mailbox, prev_id) ==
    Cardinality({r \in DeliveredRows(domain, destination_mailbox) : r.id >= prev_id})

deliveries_count_since_id(domain, destination_mailbox, prev_id) ==
    Cardinality({r \in DeliveredRows(domain, destination_mailbox) : r.id > prev_id})

(***************************************************************************)
(* The store calls.                                                        *)
(***************************************************************************)
\* Callers are interchangeable: a new call is taken by the first idle one.
FirstIdle(p) == pc[p] = "idle" /\ \A q \in Procs : q < p => pc[q] # "idle"

Init ==
    /\ messages = {}
    /\ delivered = {}
    /\ msgSeq = 0
    /\ delSeq = 0
    /\ clock = 0
    /\ pc = [p \in Procs |-> "idle"]
    /\ call = [p \in Procs |-> NoCall]
    /\ writes = 0
    /\ started = 0
    /\ calls = {}

NewCall(op, domain, mailbox, batch, latest_id_before) ==
    [op |-> op, domain |-> domain, mailbox |-> mailbox, batch |-> batch,
     latest_id_before |-> latest_id_before, now |-> clock,
     startW |-> writes, upW |-> 0, before |-> {}, inserted |-> {},
     steps |-> <<"baseline">>]

\* The call of p ends with res at its statement `step`.
Finish(p, step, res) ==
    /\ calls' = calls \cup {[call |-> [call[p] EXCEPT !.steps = Append(@, step)],
                             res |-> res, endW |-> writes']}
    /\ started' = started
    /\ pc' = [pc EXCEPT ![p] = "idle"]
    /\ call' = [call EXCEPT ![p] = NoCall]

\* store_dispatched_messages up to the await of the upsert: the baseline is
\* read and the models are built (date_time::now()).
StoreDispatchedBaseline(p, domain, origin_mailbox, batch) ==
    /\ FirstIdle(p)
    /\ started < MaxCalls
    /\ started' = started + 1
    /\ call' = [call EXCEPT ![p] =
                  NewCall("dispatch", domain, origin_mailbox, batch,
                          latest_dispatched_id(domain, address_to_bytes(origin_mailbox)))]
    /\ pc' = [pc EXCEPT ![p] = "dispatch_upsert"]
    /\ clock' = clock + 1
    /\ UNCHANGED <<messages, delivered, msgSeq, delSeq, writes, calls>>

StoreDispatchedUpsert(p) ==
    /\ pc[p] = "dispatch_upsert"
    /\ \E out \in UpsertOutcomes([rows |-> messages, seq |-> msgSeq],
                                 MsgConflictColumns, MsgUpdateColumns,
                                 MessageModels(address_to_bytes(call[p].mailbox),
                                               call[p].batch, call[p].now)) :
          /\ IsOk(out)
          /\ messages' = out[2].rows
          /\ msgSeq' = out[2].seq
    /\ writes' = writes + 1
    /\ call' = [call EXCEPT ![p].upW = writes',
                            ![p].steps = Append(@, "upsert"),
                            ![p].before = messages,
                            ![p].inserted = {r.id : r \in messages'} \ {r.id : r \in messages}]
    /\ pc' = [pc EXCEPT ![p] = "dispatch_count"]
    /\ UNCHANGED <<delivered, delSeq, clock, started, calls>>

StoreDispatchedUpsertFails(p) ==
    /\ pc[p] = "dispatch_upsert"
    /\ \E out \in UpsertOutcomes([rows |-> messages, seq |-> msgSeq],
                                 MsgConflictColumns, MsgUpdateColumns,
                                 MessageModels(address_to_bytes(call[p].mailbox),
                                               call[p].batch, call[p].now)) :
          /\ ~IsOk(out)
          /\ writes' = writes
          /\ Finish(p, "upsert", out)
    /\ UNCHANGED <<messages, delivered, msgSeq, delSeq, clock>>

StoreDispatchedCount(p) ==
    /\ pc[p] = "dispatch_count"
    /\ writes' = writes
    /\ Finish(p, "count", Ok(dispatch_count_since_id(call[p].domain, address_to_bytes(call[p].mailbox),
                                                              call[p].latest_id_before)))
    /\ UNCHANGED <<messages, delivered, msgSeq, delSeq, clock>>

StoreDeliveriesBaseline(p, domain, destination_mailbox, batch) ==
    /\ FirstIdle(p)
    /\ started < MaxCalls
    /\ started' = started + 1
    /\ call' = [call EXCEPT ![p] =
                  NewCall("deliveries", domain, destination_mailbox, batch,
                          latest_deliveries_id(domain, address_to_bytes(destination_mailbox)))]
    /\ pc' = [pc EXCEPT ![p] = "deliveries_upsert"]
    /\ clock' = clock + 1
    /\ UNCHANGED <<messages, delivered, msgSeq, delSeq, writes, calls>>

StoreDeliveriesUpsert(p) ==
    /\ pc[p] = "deliveries_upsert"
    /\ \E out \in UpsertOutcomes([rows |-> delivered, seq |-> delSeq],
                                 DelConflictColumns, DelUpdateColumns,
                                 DeliveryModels(call[p].domain,
                                                address_to_bytes(call[p].mailbox),
                                                call[p].batch, call[p].now)) :
          /\ IsOk(out)
          /\ delivered' = out[2].rows
          /\ delSeq' = out[2].seq
    /\ writes' = writes + 1
    /\ call' = [call EXCEPT ![p].upW = writes',
                            ![p].steps = Append(@, "upsert"),
                            ![p].before = delivered,
                            ![p].inserted = {r.id : r \in delivered'} \ {r.id : r \in delivered}]
    /\ pc' = [pc EXCEPT ![p] = "deliveries_count"]
    /\ UNCHANGED <<messages, msgSeq, clock, started, calls>>

StoreDeliveriesUpsertFails(p) ==
    /\ pc[p] = "deliveries_upsert"
    /\ \E out \in UpsertOutcomes([rows |-> delivered, seq |-> delSeq],
                                 DelConflictColumns, DelUpdateColumns,
                                 DeliveryModels(call[p].domain,
                                                address_to_bytes(call[p].mailbox),
                                                call[p].batch, call[p].now)) :
          /\ ~IsOk(out)
          /\ writes' = writes
          /\ Finish(p, "upsert", out)
    /\ UNCHANGED <<messages, delivered, msgSeq, delSeq, clock>>

StoreDeliveriesCount(p) ==
    /\ pc[p] = "deliveries_count"
    /\ writes' = writes
    /\ Finish(p, "count", Ok(deliveries_count_since_id(call[p].domain, address_to_bytes(call[p].mailbox),
                                                                call[p].latest_id_before)))
    /\ UNCHANGED <<messages, delivered, msgSeq, delSeq, clock>>

Next ==
    \E p \in Procs :
        \/ \E a \in DispatchArgs :
              StoreDispatchedBaseline(p, a[1], a[2], a[3])
        \/ StoreDispatchedUpsert(p)
        \/ StoreDispatchedUpsertFails(p)
        \/ StoreDispatchedCount(p)
        \/ \E a \in DeliveryArgs :
              StoreDeliveriesBaseline(p, a[1], a[2], a[3])
        \/ StoreDeliveriesUpsert(p)
        \/ StoreDeliveriesUpsertFails(p)
        \/ StoreDeliveriesCount(p)

Spec == Init /\ [][Next]_vars

(***************************************************************************)
(* The store calls with failing statements and empty batches.  Each of the *)
(* three awaited statements of a store call may fail with a DbErr, which   *)
(* `?` returns to the caller; nothing is retried.  On an empty batch       *)
(* debug_assert!(!models.is_empty()) panics in a build with debug          *)
(* assertions and is absent from a release build, where the empty          *)
(* Insert::many goes to the store.                                         *)
(***************************************************************************)
\* The arguments of store_dispatched_messages and store_deliveries in
\* FailSpec: an empty batch; one item; two keys; one key twice; the nonce
\* that does not fit a signed integer alone.
FailDispatchArgs ==
    {<<1, AddrA, <<>>>>, <<1, AddrA, <<S2>>>>, <<1, AddrA, <<S1, S3>>>>,
     <<1, AddrA, <<S2, S1>>>>, <<1, AddrA, <<S3>>>>}
FailDeliveryArgs ==
    {<<1, AddrA, <<>>>>, <<1, AddrA, <<DX1>>>>, <<1, AddrA, <<DY1, DX2>>>>}

\* latest_dispatched_id(..).await? returns the error: the call ends before
\* the models are built.
StoreDispatchedBaselineFails(p, domain, origin_mailbox, batch) ==
    /\ FirstIdle(p)
    /\ started < MaxCalls
    /\ started' = started + 1
    /\ calls' = calls \cup {[call |-> NewCall("dispatch", domain, origin_mailbox, batch, 0),
                             res |-> StoreError, endW |-> writes]}
    /\ clock' = clock + 1
    /\ UNCHANGED <<messages, delivered, msgSeq, delSeq, pc, call, writes>>

\* debug_assert!(!models.is_empty()) in a build with debug assertions.
StoreDispatchedAssertFails(p) ==
    /\ pc[p] = "dispatch_upsert"
    /\ call[p].batch = <<>>
    /\ writes' = writes
    /\ Finish(p, "assert", Panic("assertion failed: !models.is_empty()"))
    /\ UNCHANGED <<messages, delivered, msgSeq, delSeq, clock>>

\* Faulty variant of StoreDispatchedUpsertErrors: the error is swallowed and
\* the call goes on to its recount.
StoreDispatchedUpsertErrors_Swallowed(p) ==
    /\ pc[p] = "dispatch_upsert"
    /\ call' = [call EXCEPT ![p].steps = Append(@, "upsert")]
    /\ pc' = [pc EXCEPT ![p] = "dispatch_count"]
    /\ UNCHANGED <<messages, delivered, msgSeq, delSeq, clock, writes, started, calls>>

\* Insert::many(..).exec(..).await? returns a DbErr: nothing was written.
StoreDispatchedUpsertErrors(p) ==
    /\ pc[p] = "dispatch_upsert"
    /\ writes' = writes
    /\ Finish(p, "upsert", StoreError)
    /\ UNCHANGED <<messages, delivered, msgSeq, delSeq, clock>>

\* dispatch_count_since_id(..).await? returns the error, after the upsert.
StoreDispatchedCountFails(p) ==
    /\ pc[p] = "dispatch_count"
    /\ writes' = writes
    /\ Finish(p, "count", StoreError)
    /\ UNCHANGED <<messages, delivered, msgSeq, delSeq, clock>>

StoreDeliveriesBaselineFails(p, domain, destination_mailbox, batch) ==
    /\ FirstIdle(p)
    /\ started < MaxCalls
    /\ started' = started + 1
    /\ calls' = calls \cup {[call |-> NewCall("deliveries", domain, destination_mailbox, batch, 0),
                             res |-> StoreError, endW |-> writes]}
    /\ clock' = clock + 1
    /\ UNCHANGED <<messages, delivered, msgSeq, delSeq, pc, call, writes>>

StoreDeliveriesAssertFails(p) ==
    /\ pc[p] = "deliveries_upsert"
    /\ call[p].batch = <<>>
    /\ writes' = writes
    /\ Finish(p, "assert", Panic("assertion failed: !models.is_empty()"))
    /\ UNCHANGED <<messages, delivered, msgSeq, delSeq, clock>>

StoreDeliveriesUpsertErrors(p) ==
    /\ pc[p] = "deliveries_upsert"
    /\ writes' = writes
    /\ Finish(p, "upsert", StoreError)
    /\ UNCHANGED <<messages, delivered, msgSeq, delSeq, clock>>

StoreDeliveriesCountFails(p) ==
    /\ pc[p] = "deliveries_count"
    /\ writes' = writes
    /\ Finish(p, "count", StoreError)
    /\ UNCHANGED <<messages, delivered, msgSeq, delSeq, clock>>

FailNext ==
    \E p \in Procs :
        \/ \E a \in FailDispatchArgs :
              \/ StoreDispatchedBaseline(p, a[1], a[2], a[3])
              \/ StoreDispatchedBaselineFails(p, a[1], a[2], a[3])
        \/ StoreDispatchedAssertFails(p)
        \/ StoreDispatchedUpsert(p)
        \/ StoreDispatchedUpsertFails(p)
        \/ StoreDispatchedUpsertErrors(p)
        \/ StoreDispatchedCount(p)
        \/ StoreDispatchedCountFails(p)
        \/ \E a \in FailDeliveryArgs :
              \/ StoreDeliveriesBaseline(p, a[1], a[2], a[3])
              \/ StoreDeliveriesBaselineFails(p, a[1], a[2], a[3])
        \/ StoreDeliveriesAssertFails(p)
        \/ StoreDeliveriesUpsert(p)
        \/ StoreDeliveriesUpsertFails(p)
        \/ StoreDeliveriesUpsertErrors(p)
        \/ StoreDeliveriesCount(p)
        \/ StoreDeliveriesCountFails(p)

FailSpec == Init /\ [][FailNext]_vars

(***************************************************************************)
(* Vocabulary of the properties.                                           *)
(***************************************************************************)
IsDispatch(c) == c.call.op = "dispatch"
IsDeliveries(c) == c.call.op = "deliveries"

\* The rows the call handed to its upsert.
ModelsOf(k) ==
    IF k.op = "dispatch"
    THEN MessageModels(address_to_bytes(k.mailbox), k.batch, k.now)
    ELSE DeliveryModels(k.domain, address_to_bytes(k.mailbox), k.batch, k.now)
\* The natural keys and the mutable fields of the two row kinds, as the data
\* model states them.
MsgNaturalKey == {"origin_mailbox", "origin", "nonce"}
MsgMutableFields ==
    {"destination", "sender", "recipient", "msg_body", "time_created", "origin_tx_id"}
DelNaturalKey == {"msg_id"}
DelMutableFields == {"time_created", "destination_tx_id"}
NaturalKeyOf(k) == IF k.op = "dispatch" THEN MsgNaturalKey ELSE DelNaturalKey
KeysOf(k) == {KeyOf(NaturalKeyOf(k), ModelsOf(k)[i]) : i \in 1..Len(k.batch)}

\* No other caller's upsert fell between the call's baseline read and its
\* recount.
Quiet(c) == c.call.upW = c.call.startW + 1 /\ c.endW = c.call.upW
\* d read its baseline right after c's upsert: no write lies between the two
\* calls' upserts.
Follows(c, d) == d.call.startW = c.call.upW
SameArgs(c, d) ==
    /\ c.call.op = d.call.op
    /\ c.call.domain = d.call.domain
    /\ c.call.mailbox = d.call.mailbox
    /\ c.call.batch = d.call.batch
\* The call's upsert is the latest write to the store.
LatestWrite(c) == IsOk(c.res) /\ writes = c.call.upW
\* Item i is the last item of the batch with its key.
LastOfKey(k, i) ==
    \A j \in 1..Len(k.batch) :
        j > i => KeyOf(NaturalKeyOf(k), ModelsOf(k)[j]) # KeyOf(NaturalKeyOf(k), ModelsOf(k)[i])

(***************************************************************************)
(* C1: idempotence of store_dispatched_messages without concurrent         *)
(* writers.  A successful call whose batch holds only keys that were not   *)
(* stored returns the number of distinct keys of the batch (which is > 0), *)
(* and a successful call with the identical batch, domain and mailbox that *)
(* follows it immediately returns 0.                                       *)
(***************************************************************************)
FreshBatch(c) ==
    KeysOf(c.call) \cap {KeyOf(MsgNaturalKey, r) : r \in c.call.before} = {}

C1_Idempotence ==
    \A c \in calls :
        (IsDispatch(c) /\ IsOk(c.res) /\ Quiet(c) /\ FreshBatch(c)) =>
            /\ c.res = Ok(Cardinality(KeysOf(c.call)))
            /\ c.res[2] > 0
            /\ \A d \in calls :
                  (SameArgs(c, d) /\ IsOk(d.res) /\ Quiet(d) /\ Follows(c, d))
                  => d.res = Ok(0)

(***************************************************************************)
(* C2: under every interleaving the stored data is intact: at most one     *)
(* message row per (origin_mailbox, origin, nonce), at most one delivery   *)
(* row per msg_id, and the mutable fields of every row are those of one    *)
(* single item that some call's upsert submitted for the row's key.        *)
(***************************************************************************)
\* The calls whose upsert has been executed.
Upserted ==
    {call[p] : p \in {q \in Procs : pc[q] \in {"dispatch_count", "deliveries_count"}}}
    \cup {c.call : c \in {d \in calls : d.call.upW > 0}}

SubmittedModels(op) ==
    UNION {{ModelsOf(k)[i] : i \in 1..Len(k.batch)} : k \in {u \in Upserted : u.op = op}}

FromOneItem(r, cols, upd, op) ==
    \E m \in SubmittedModels(op) :
        /\ KeyOf(cols, m) = KeyOf(cols, r)
        /\ KeyOf(upd, m) = KeyOf(upd, r)

C2_NeverCorrupted ==
    /\ \A r1, r2 \in messages :
          KeyOf(MsgNaturalKey, r1) = KeyOf(MsgNaturalKey, r2) => r1 = r2
    /\ \A r1, r2 \in delivered :
          KeyOf(DelNaturalKey, r1) = KeyOf(DelNaturalKey, r2) => r1 = r2
    /\ \A r \in messages : FromOneItem(r, MsgNaturalKey, MsgMutableFields, "dispatch")
    /\ \A r \in delivered : FromOneItem(r, DelNaturalKey, DelMutableFields, "deliveries")

\* Two calls are in flight between baseline and recount, and a row holds a
\* key that two different submitted items carry.
C2_Witness ==
    /\ \A p \in Procs : pc[p] \in {"dispatch_count", "deliveries_count"}
    /\ \/ \E r \in messages :
            Cardinality({m \in SubmittedModels("dispatch") :
                            KeyOf(MsgNaturalKey, m) = KeyOf(MsgNaturalKey, r)}) > 1
       \/ \E r \in delivered :
            Cardinality({m \in SubmittedModels("deliveries") :
                            KeyOf(DelNaturalKey, m) = KeyOf(DelNaturalKey, r)}) > 1

(***************************************************************************)
(* C3: when a key (origin_mailbox, origin, nonce) is stored by two         *)
(* successive store_dispatched_messages calls, with different bodies,      *)
(* there is exactly one row for the key and its destination, sender,       *)
(* recipient, body and origin_tx_id are those of the later call.           *)
(***************************************************************************)
MsgContentColumns == MsgMutableFields \ {"time_created"}

C3_LatestBodyWins ==
    \A c \in calls :
        LET ms == ModelsOf(c.call)
        IN  (IsDispatch(c) /\ LatestWrite(c)) =>
            \A n \in 1..Len(ms) :
                LastOfKey(c.call, n) =>
                    LET hit == {r \in messages :
                                  KeyOf(MsgNaturalKey, r) = KeyOf(MsgNaturalKey, ms[n])}
                    IN  /\ Cardinality(hit) = 1
                        /\ \A r \in hit : KeyOf(MsgContentColumns, r) = KeyOf(MsgContentColumns, ms[n])

\* The later of two successive calls re-stored a key with another body.
C3_Witness ==
    \E c, d \in calls :
        /\ IsDispatch(c) /\ IsDispatch(d)
        /\ IsOk(c.res) /\ LatestWrite(d)
        /\ d.call.startW >= c.call.upW
        /\ \E a \in 1..Len(c.call.batch), b \in 1..Len(d.call.batch) :
              LET ma == ModelsOf(c.call)[a]
                  mb == ModelsOf(d.call)[b]
              IN  /\ KeyOf(MsgNaturalKey, ma) = KeyOf(MsgNaturalKey, mb)
                  /\ ma.msg_body # mb.msg_body
                  /\ \E r \in messages :
                        /\ KeyOf(MsgNaturalKey, r) = KeyOf(MsgNaturalKey, mb)
                        /\ r.msg_body = mb.msg_body
                        /\ r.id \in c.call.inserted

(***************************************************************************)
(* C4: without concurrent writers, a store_deliveries call that re-stores  *)
(* msg_ids the call right before it (same domain and mailbox) stored       *)
(* returns 0, and afterwards each of these msg_ids has exactly one row,    *)
(* whose destination_tx_id is the one the second call gave.                *)
(***************************************************************************)
MsgIdsOf(k) == {h256_to_bytes(k.batch[i].message_id) : i \in 1..Len(k.batch)}

C4_RedeliveryUpdatesTx ==
    \A c, d \in calls :
            (/\ IsDeliveries(c) /\ IsDeliveries(d)
             /\ IsOk(c.res) /\ IsOk(d.res) /\ Quiet(c) /\ Quiet(d) /\ Follows(c, d)
             /\ c.call.domain = d.call.domain /\ c.call.mailbox = d.call.mailbox
             /\ MsgIdsOf(d.call) \subseteq MsgIdsOf(c.call))
            => /\ d.res = Ok(0)
               /\ LatestWrite(d) =>
                    \A n \in 1..Len(d.call.batch) :
                        LastOfKey(d.call, n) =>
                            LET hit == {r \in delivered :
                                          r.msg_id = h256_to_bytes(d.call.batch[n].message_id)}
                            IN  /\ Cardinality(hit) = 1
                                /\ \A r \in hit : r.destination_tx_id = d.call.batch[n].txn_id

\* A delivery was re-stored with another transaction id.
C4_Witness ==
    \E c, d \in calls :
            /\ IsDeliveries(c) /\ IsDeliveries(d)
            /\ IsOk(c.res) /\ Quiet(c) /\ Quiet(d) /\ Follows(c, d) /\ LatestWrite(d)
            /\ c.call.domain = d.call.domain /\ c.call.mailbox = d.call.mailbox
            /\ Len(c.call.batch) = 1 /\ Len(d.call.batch) = 1
            /\ c.call.batch[1].message_id = d.call.batch[1].message_id
            /\ c.call.batch[1].txn_id # d.call.batch[1].txn_id
            /\ c.res = Ok(1) /\ d.res = Ok(0)
            /\ \E r \in delivered : r.destination_tx_id = d.call.batch[1].txn_id

(***************************************************************************)
(* C5: last_message_nonce(D, M) returns the greatest nonce among the       *)
(* stored rows of origin domain D and origin mailbox M, whatever other     *)
(* domains and mailboxes hold; so it is at least every nonce that an       *)
(* executed upsert stored for (D, M).                                      *)
(***************************************************************************)
Targets == Domains \X Mailboxes
LookupNonces == {s.msg.nonce : s \in Storables}

StoredNonces(D, M) ==
    {AsU32(r.nonce) : r \in {x \in messages :
                               AsU32(x.origin) = D /\ x.origin_mailbox = address_to_bytes(M)}}

C5_HighestNonce ==
    \A t \in Targets :
        LET stored == StoredNonces(t[1], t[2]) IN
        stored # {} =>
            /\ last_message_nonce(t[1], t[2]) = Ok(Some(SetMax(stored)))
            /\ \A k \in Upserted :
                  (k.op = "dispatch" /\ k.mailbox = t[2]) =>
                      \A n \in 1..Len(k.batch) :
                          k.batch[n].msg.origin = t[1] =>
                              k.batch[n].msg.nonce <= Unwrap(last_message_nonce(t[1], t[2])[2])

(***************************************************************************)
(* C6: when no message row exists for (origin_domain, origin_mailbox),     *)
(* last_message_nonce returns Ok(None).                                    *)
(***************************************************************************)
C6_NoneWhenEmpty ==
    \A t \in Targets :
        StoredNonces(t[1], t[2]) = {} => last_message_nonce(t[1], t[2]) = Ok(None)

(***************************************************************************)
(* C7: round trip.  Every message m that store_dispatched_messages(D, M)   *)
(* stored is returned by retrieve_message_by_nonce(D, M, m.nonce) equal to *)
(* m in all fields (an empty body comes back empty).                       *)
(***************************************************************************)
C7_RoundTrip ==
    \A c \in calls :
        (IsDispatch(c) /\ LatestWrite(c)) =>
            \A n \in 1..Len(c.call.batch) :
                LastOfKey(c.call, n) =>
                    retrieve_message_by_nonce(c.call.domain, c.call.mailbox,
                                              c.call.batch[n].msg.nonce)
                        = {Ok(Some(c.call.batch[n].msg))}

(***************************************************************************)
(* C8: retrieve_dispatched_tx_id is a point lookup on the unique key: for  *)
(* every (origin_domain, origin_mailbox, nonce) it returns none exactly    *)
(* when retrieve_message_by_nonce finds no row, and otherwise the          *)
(* origin_tx_id of the one row with that key, which is the transaction id  *)
(* of the latest store of the key.                                         *)
(***************************************************************************)
PointLookup(D, M, n) ==
    {r \in messages : r.origin_mailbox = address_to_bytes(M) /\ r.origin = D /\ r.nonce = n}

C8_TxIdIsPointLookup ==
    \A t \in Targets, n \in LookupNonces :
        LET tx == retrieve_dispatched_tx_id(t[1], t[2], n)
            msg == retrieve_message_by_nonce(t[1], t[2], n)
            rows == PointLookup(t[1], t[2], n)
        IN  /\ (tx = {Ok(None)}) <=> (msg = {Ok(None)})
            /\ msg # {Ok(None)} =>
                  /\ Cardinality(rows) = 1
                  /\ \A r \in rows : tx = {Ok(Some(r.origin_tx_id))}
            /\ \A c \in calls :
                  (IsDispatch(c) /\ LatestWrite(c) /\ c.call.mailbox = t[2]) =>
                      \A a \in 1..Len(c.call.batch) :
                          LET m == ModelsOf(c.call)[a] IN
                          (LastOfKey(c.call, a) /\ m.origin = t[1] /\ m.nonce = n)
                              => tx = {Ok(Some(m.origin_tx_id))}

\* A key was stored twice with different transaction ids and the lookup
\* returns the later one.
C8_Witness ==
    \E c, d \in calls :
        /\ IsDispatch(c) /\ IsDispatch(d)
        /\ IsOk(c.res) /\ LatestWrite(d) /\ c.call.upW < d.call.upW
        /\ \E a \in 1..Len(c.call.batch), b \in 1..Len(d.call.batch) :
              LET ma == ModelsOf(c.call)[a]
                  mb == ModelsOf(d.call)[b]
              IN  /\ KeyOf(MsgNaturalKey, ma) = KeyOf(MsgNaturalKey, mb)
                  /\ ma.origin_tx_id # mb.origin_tx_id
                  /\ LastOfKey(d.call, b)
                  /\ retrieve_dispatched_tx_id(mb.origin, d.call.mailbox, mb.nonce)
                        = {Ok(Some(mb.origin_tx_id))}

(***************************************************************************)
(* C9: without concurrent writers the count store_dispatched_messages      *)
(* returns is the number of rows the call added (the rows that exist after *)
(* it and did not exist before it), for every batch.                       *)
(***************************************************************************)
C9_CountsNewRows ==
    \A c \in calls :
        (IsDispatch(c) /\ IsOk(c.res) /\ Quiet(c)) =>
            c.res = Ok(Cardinality(c.call.inserted))

(***************************************************************************)
(* C10: a store call returns more than the number of rows it inserted      *)
(* itself only when another writer's upsert fell between its baseline read *)
(* and its recount; C10_Witness is such a call, racing with another call   *)
(* on the same (domain, mailbox) filter.                                   *)
(***************************************************************************)
Overcounts(c) == IsOk(c.res) /\ c.res[2] > Cardinality(c.call.inserted)

C10_OvercountOnlyInRace ==
    \A c \in calls : Overcounts(c) => ~Quiet(c)

C10_Witness ==
    \E c, d \in calls :
            /\ c # d /\ Overcounts(c)
            /\ c.call.op = d.call.op
            /\ c.call.domain = d.call.domain /\ c.call.mailbox = d.call.mailbox
            /\ d.call.upW > c.call.startW /\ d.call.upW <= c.endW

(***************************************************************************)
(* C11: no store call returns less than the number of rows its own upsert  *)
(* inserted into its (domain, mailbox) filter, under every interleaving:   *)
(* the rows it inserts get ids above the baseline it read and stay in the  *)
(* filter.  C11_Witness is a call that raced with another call on the same *)
(* filter, both inserting rows into it.                                    *)
(***************************************************************************)
\* The rows of the call's filter that the call's own upsert inserted.
OwnRowsInFilter(c) ==
    IF IsDispatch(c)
    THEN {r \in messages : /\ r.id \in c.call.inserted
                           /\ r.origin = c.call.domain
                           /\ r.origin_mailbox = address_to_bytes(c.call.mailbox)}
    ELSE {r \in delivered : /\ r.id \in c.call.inserted
                            /\ r.domain = c.call.domain
                            /\ r.destination_mailbox = address_to_bytes(c.call.mailbox)}
Undercounts(c) == IsOk(c.res) /\ c.res[2] < Cardinality(OwnRowsInFilter(c))
\* d's upsert fell between c's baseline read and c's recount, on c's filter.
RacedBy(c, d) ==
    /\ c # d
    /\ c.call.op = d.call.op
    /\ c.call.domain = d.call.domain /\ c.call.mailbox = d.call.mailbox
    /\ d.call.upW > c.call.startW /\ d.call.upW <= c.endW

AllCalls == {call[p] : p \in {q \in Procs : pc[q] # "idle"}} \cup {c.call : c \in calls}
TableOf(k) == IF k.op = "dispatch" THEN messages ELSE delivered
\* The rows last written by the call (each call has its own time_created).
StampedRows(k) == {r \in TableOf(k) : r.time_created = k.now}
StampedKeys(k) == {KeyOf(NaturalKeyOf(k), r) : r \in StampedRows(k)}
StoredKeys(k) == {KeyOf(NaturalKeyOf(k), r) : r \in TableOf(k)}

C12_AllOrNothing ==
    \A k \in AllCalls :
        /\ StampedKeys(k) \subseteq KeysOf(k)
        /\ StampedKeys(k) = {} \/ KeysOf(k) \subseteq StoredKeys(k)
        /\ k.upW = 0 => StampedKeys(k) = {}
        /\ (k.upW > 0 /\ writes = k.upW) => StampedKeys(k) = KeysOf(k)

\* One call failed at its recount with both keys of its batch stored, another
\* failed at its upsert with nothing of its batch stored.
C12_Witness ==
    \E c, d \in calls :
        /\ c.res = StoreError /\ c.call.steps = <<"baseline", "upsert", "count">>
        /\ Cardinality(KeysOf(c.call)) = 2 /\ StampedKeys(c.call) = KeysOf(c.call)
        /\ d.res = StoreError /\ d.call.steps = <<"baseline", "upsert">>
        /\ KeysOf(d.call) # {} /\ StampedKeys(d.call) = {}
        /\ KeysOf(d.call) \cap StoredKeys(d.call) = {}

(***************************************************************************)
(* C13: every failure of a statement ends the store call with that error   *)
(* and nothing is retried.  A call returns a count only after its baseline *)
(* query, its upsert and its recount each ran once and succeeded; a call   *)
(* that failed at its baseline query attempted no write; a call that       *)
(* failed at its upsert wrote nothing and attempted no recount; no call    *)
(* attempts a statement twice.                                             *)
(***************************************************************************)
LastStep(c) == c.call.steps[Len(c.call.steps)]
Failed(c) == ~IsOk(c.res)

C13_FailuresPropagate ==
    \A c \in calls :
        /\ IsOk(c.res) =>
              /\ c.call.steps = <<"baseline", "upsert", "count">>
              /\ c.call.upW > 0
              /\ KeysOf(c.call) \subseteq StoredKeys(c.call)
        /\ \A i, j \in 1..Len(c.call.steps) : i < j => c.call.steps[i] # c.call.steps[j]
        /\ (Failed(c) /\ LastStep(c) = "baseline") =>
              /\ c.call.steps = <<"baseline">>
              /\ c.call.upW = 0 /\ StampedKeys(c.call) = {}
        /\ (Failed(c) /\ LastStep(c) \in {"assert", "upsert"}) =>
              /\ "count" \notin {c.call.steps[i] : i \in 1..Len(c.call.steps)}
              /\ c.call.upW = 0 /\ StampedKeys(c.call) = {}
        /\ (Failed(c) /\ LastStep(c) = "count") =>
              c.call.steps = <<"baseline", "upsert", "count">>
        /\ c.call.steps[1] = "baseline"

\* One call failed at its baseline query and another at its upsert; the
\* store holds no row of either batch.
C13_Witness ==
    \E c, d \in calls :
        /\ c.res = StoreError /\ LastStep(c) = "baseline" /\ c.call.batch # <<>>
        /\ d.res = StoreError /\ LastStep(d) = "upsert" /\ d.call.batch # <<>>
        /\ messages = {} /\ delivered = {}

StoredMsgKeys == {KeyOf(MsgNaturalKey, r) : r \in messages}
StoredDelKeys == {KeyOf(DelNaturalKey, r) : r \in delivered}
KeysOnlyGrow == StoredMsgKeys \subseteq StoredMsgKeys' /\ StoredDelKeys \subseteq StoredDelKeys'
HighestNonceGrows ==
    \A t \in Targets :
        IsOk(last_message_nonce(t[1], t[2])) =>
            /\ IsOk(last_message_nonce(t[1], t[2])')
            /\ Unwrap(last_message_nonce(t[1], t[2])[2])
                  <= Unwrap(last_message_nonce(t[1], t[2])'[2])

C15_RowsNeverDeleted == [][KeysOnlyGrow /\ HighestNonceGrows]_vars

\* The part of C15 about the keys alone.
C15_KeysOnlyGrow == [][KeysOnlyGrow]_vars

(***************************************************************************)
(* C16: a store_dispatched_messages call whose batch holds one key         *)
(* (origin_mailbox, origin, nonce) twice raises no error, and the one row  *)
(* stored for the key carries the mutable fields of the item that comes    *)
(* last in the batch.                                                      *)
(***************************************************************************)
DuplicateInBatch(k) == Cardinality(KeysOf(k)) < Len(k.batch)

C16_DuplicateKeyLastWins ==
    \A c \in calls :
        (IsDispatch(c) /\ DuplicateInBatch(c.call)) =>
            /\ IsOk(c.res)
            /\ LatestWrite(c) =>
                  \A n \in 1..Len(c.call.batch) :
                      LastOfKey(c.call, n) =>
                          LET m == ModelsOf(c.call)[n]
                              hit == {r \in messages :
                                        KeyOf(MsgNaturalKey, r) = KeyOf(MsgNaturalKey, m)}
                          IN  /\ Cardinality(hit) = 1
                              /\ \A r \in hit : KeyOf(MsgContentColumns, r) = KeyOf(MsgContentColumns, m)

\* The part of C16 that holds: when the store accepts the statement, the
\* last item of the key wins.
C16_LastWinsWhenAccepted ==
    \A c \in calls :
        (IsDispatch(c) /\ DuplicateInBatch(c.call) /\ LatestWrite(c)) =>
            \A n \in 1..Len(c.call.batch) :
                LastOfKey(c.call, n) =>
                    \E r \in messages :
                        /\ KeyOf(MsgNaturalKey, r) = KeyOf(MsgNaturalKey, ModelsOf(c.call)[n])
                        /\ KeyOf(MsgContentColumns, r) = KeyOf(MsgContentColumns, ModelsOf(c.call)[n])

(***************************************************************************)
(* C17: the watermark counter.  For every (domain, mailbox) filter of      *)
(* either table, the baseline query returns the greatest id among the rows *)
(* matching the filter and 0 when none matches; the count query returns    *)
(* the number of matching rows with an id strictly above the given id; and *)
(* a store call whose baseline was 0 returns, as long as nothing is        *)
(* written after its recount, the number of rows matching its filter.      *)
(***************************************************************************)
Ops == {"dispatch", "deliveries"}
MatchingRows(op, D, M) ==
    IF op = "dispatch"
    THEN {r \in messages : r.origin = D /\ r.origin_mailbox = address_to_bytes(M)}
    ELSE {r \in delivered : r.domain = D /\ r.destination_mailbox = address_to_bytes(M)}
Baseline(op, D, M) ==
    IF op = "dispatch" THEN latest_dispatched_id(D, address_to_bytes(M))
    ELSE latest_deliveries_id(D, address_to_bytes(M))
CountSince(op, D, M, prev_id) ==
    IF op = "dispatch" THEN dispatch_count_since_id(D, address_to_bytes(M), prev_id)
    ELSE deliveries_count_since_id(D, address_to_bytes(M), prev_id)
LastId(op) == IF op = "dispatch" THEN msgSeq ELSE delSeq

C17_WatermarkCounter ==
    /\ \A op \in Ops, t \in Targets :
          LET rows == MatchingRows(op, t[1], t[2])
              b == Baseline(op, t[1], t[2])
          IN  /\ rows = {} => b = 0
              /\ rows # {} => /\ \E r \in rows : r.id = b
                              /\ \A r \in rows : r.id <= b
              /\ \A prev_id \in 0..LastId(op) :
                    CountSince(op, t[1], t[2], prev_id)
                        = Cardinality({r \in rows : r.id > prev_id})
    /\ \A c \in calls :
          (IsOk(c.res) /\ c.call.latest_id_before = 0 /\ writes = c.endW) =>
              c.res[2] = Cardinality(MatchingRows(c.call.op, c.call.domain, c.call.mailbox))

\* A first store into an empty filter returned 2, the filter holds two rows
\* and its baseline is now the greater of their ids.
C17_Witness ==
    \E c \in calls :
        LET rows == MatchingRows(c.call.op, c.call.domain, c.call.mailbox) IN
        /\ c.res = Ok(2) /\ c.call.latest_id_before = 0 /\ c.call.before = {}
        /\ writes = c.endW
        /\ Cardinality(rows) = 2
        /\ Baseline(c.call.op, c.call.domain, c.call.mailbox) = 2
        /\ CountSince(c.call.op, c.call.domain, c.call.mailbox, 1) = 1

(***************************************************************************)
(* C18: the frame of an upsert.  In every step, every stored row keeps its *)
(* id and its key, a message row changes at most in destination, sender,   *)
(* recipient, msg_body, time_created and origin_tx_id, a delivery row at   *)
(* most in time_created and destination_tx_id (so its domain and           *)
(* destination_mailbox stay, also when the msg_id is stored again under    *)
(* another domain or mailbox), and a row changes only in the upsert of a   *)
(* call whose batch holds the row's key.                                   *)
(***************************************************************************)
Upserting(p) == pc[p] \in {"dispatch_upsert", "deliveries_upsert"} /\ pc'[p] # pc[p]
RowFrame(rows, rowsAfter, mutable, op) ==
    \A r \in rows :
        /\ \E r2 \in rowsAfter :
              /\ r2.id = r.id
              /\ \A col \in (DOMAIN r) \ mutable : r2[col] = r[col]
        /\ r \notin rowsAfter =>
              \E p \in Procs :
                  /\ Upserting(p) /\ call[p].op = op
                  /\ KeyOf(NaturalKeyOf(call[p]), r) \in KeysOf(call[p])

C18_UpsertFrame ==
    [][/\ RowFrame(messages, messages', MsgMutableFields, "dispatch")
       /\ RowFrame(delivered, delivered', DelMutableFields, "deliveries")]_vars

\* A msg_id stored under one domain and mailbox was stored again under
\* another: the row has the later call's transaction and time and still the
\* first call's id, domain and mailbox.
C18_Witness ==
    \E c, d \in calls :
        /\ IsDeliveries(c) /\ IsDeliveries(d) /\ IsOk(c.res) /\ LatestWrite(d)
        /\ c.call.upW < d.call.upW
        /\ c.call.domain # d.call.domain /\ c.call.mailbox # d.call.mailbox
        /\ \E r \in delivered :
              /\ r.id \in c.call.inserted
              /\ r.msg_id \in MsgIdsOf(d.call)
              /\ r.domain = c.call.domain
              /\ r.destination_mailbox = address_to_bytes(c.call.mailbox)
              /\ r.time_created = d.call.now
              /\ \E n \in 1..Len(d.call.batch) : r.destination_tx_id = d.call.batch[n].txn_id
              /\ \A n \in 1..Len(c.call.batch) : r.destination_tx_id # c.call.batch[n].txn_id

(***************************************************************************)
(* C19: in every reachable state the msg_id of every message row is the id *)
(* of the message the row holds (its origin, destination, nonce, sender,   *)
(* recipient and body; the version is not stored, so the id may be that of *)
(* any version), also after the key was stored again with other content.   *)
(***************************************************************************)
Versions == {s.msg.version : s \in Storables}
\* The messages a row stands for: its columns read back as
\* retrieve_message_by_nonce reads them, under each version.
MessagesOfRow(r) ==
    {HyperlaneMessage(v, AsU32(r.origin), AsU32(r.destination), AsU32(r.nonce),
                      bytes_to_address(r.sender)[2], bytes_to_address(r.recipient)[2],
                      IF IsSome(r.msg_body) THEN Unwrap(r.msg_body) ELSE <<>>) : v \in Versions}

C19_MsgIdMatchesContent ==
    \A r \in messages :
        \E m \in MessagesOfRow(r) : r.msg_id = h256_to_bytes(MessageId(m))

\* The part of C19 that holds: a row that was written once (inserted by a
\* batch with distinct keys and not hit by a later upsert) carries the id of
\* its content.
C19_FreshRowsMatch ==
    \A r \in messages :
        (\E k \in Upserted : /\ k.op = "dispatch" /\ ~DuplicateInBatch(k)
                             /\ k.now = r.time_created /\ r.id \in k.inserted)
        => \E m \in MessagesOfRow(r) : r.msg_id = h256_to_bytes(MessageId(m))

(***************************************************************************)
(* C20: nonces survive the cast to the signed column.  For every (domain,  *)
(* mailbox) and every nonce n stored for it, up to the largest unsigned    *)
(* value, retrieve_message_by_nonce(domain, mailbox, n) finds the row of   *)
(* nonce n, and last_message_nonce(domain, mailbox) is the greatest stored *)
(* nonce in unsigned order.                                                *)
(***************************************************************************)
C20_NonceCastRoundTrip ==
    \A t \in Targets :
        LET stored == StoredNonces(t[1], t[2]) IN
        /\ \A n \in stored :
              LET found == retrieve_message_by_nonce(t[1], t[2], n) IN
              /\ found # {Ok(None)}
              /\ \A res \in found : IsOk(res) /\ IsSome(res[2]) /\ Unwrap(res[2]).nonce = n
        /\ stored # {} =>
              /\ IsOk(last_message_nonce(t[1], t[2]))
              /\ \A n \in stored : n <= Unwrap(last_message_nonce(t[1], t[2])[2])

\* The part of C20 that holds: nonces below 2^31.
C20_SmallNonces ==
    \A t \in Targets :
        LET stored == StoredNonces(t[1], t[2]) IN
        /\ \A n \in stored :
              n < I32Half =>
                  \A res \in retrieve_message_by_nonce(t[1], t[2], n) :
                      IsOk(res) /\ IsSome(res[2]) /\ Unwrap(res[2]).nonce = n
        /\ (stored # {} /\ \A n \in stored : n < I32Half) =>
              last_message_nonce(t[1], t[2]) = Ok(Some(SetMax(stored)))

====
